---- MODULE Spec2Model ----
(***************************************************************************)
(* A model of downloader.py: the dispatcher (main), the per-episode job    *)
(* threads (download_episode), the counting semaphore that limits the      *)
(* concurrent downloads, the stop event, the files the jobs create in the  *)
(* temporary and the output directory, and verify_mp4.                     *)
(***************************************************************************)
EXTENDS Integers, Sequences, FiniteSets, TLC

\* ------------------------------------------------------------------------
\* Bounds of the model
\* ------------------------------------------------------------------------

\* Number of JSON episode files handed to main().
NumJobs == 2

\* Capacity of _download_semaphore.  The source sets 6; the model checks a
\* scaled-down pool so that more jobs than permits can be explored.
MAX_CONCURRENT_DOWNLOADS == 1

Jobs == 1..NumJobs

\* output_stem = f"{show_title}_{episode_code}" if episode_code else show_title.
\* "video" is the stem of a file that gives neither title nor episode_code;
\* two files may carry the same stem.
Stems == {"video", "video_S01E02"}

\* ------------------------------------------------------------------------
\* Files
\* ------------------------------------------------------------------------

\* The four intermediate paths of a job live in temp_dir, the final path in
\* output_directory.  A path is <<stem, kind>>.
TempKinds == {"mp4", "xml", "vtt", "muxed"}

mp4_path(s)   == <<s, "mp4">>
ttml_path(s)  == <<s, "xml">>
vtt_path(s)   == <<s, "vtt">>
muxed_path(s) == <<s, "muxed">>
final_path(s) == <<s, "final">>

TempPaths == Stems \X TempKinds
FinalPaths == {final_path(s) : s \in Stems}

\* ------------------------------------------------------------------------
\* verify_mp4
\* ------------------------------------------------------------------------

\* What ffprobe can print for format.duration.  "absent" is a JSON document
\* without the key.
DurationTexts == {"absent", "0.000000", "-1.5", "45.0", "N/A", "", "nan"}

\* What ffprobe can print on stdout: something json.loads rejects, or a
\* document with a duration text and a stream inventory.
ProbeOutputs ==
    {[json |-> FALSE, duration |-> "absent", subtitle_stream |-> FALSE]}
    \cup [json : {TRUE}, duration : DurationTexts, subtitle_stream : BOOLEAN]

\* One ffmpeg null-sink pass: exit 0 and silent, exit 0 with stderr text,
\* non-zero exit, or no exit within the 120 s timeout.
DecodeOutcomes == {"ok", "stderr", "fail", "timeout"}

VerifyInputs ==
    [exists : BOOLEAN, size : {0, 1}, probe_rc : {0, 1},
     stdout : ProbeOutputs, head : DecodeOutcomes, tail : DecodeOutcomes]

\* float(info.get('format', {}).get('duration', 0)): a number, nan, or a
\* ValueError when the text is not a number.
Num(n) == [kind |-> "number", val |-> n]
float(text) ==
    CASE text = "absent"   -> Num(0)
      [] text = "0.000000" -> Num(0)
      [] text = "-1.5"     -> Num(-2)
      [] text = "45.0"     -> Num(45)
      [] text = "nan"      -> [kind |-> "nan", val |-> 0]
      [] OTHER             -> [kind |-> "ValueError", val |-> 0]

\* duration <= 0 as Python evaluates it (every comparison with nan is False).
NonPositive(d) == d.kind = "number" /\ d.val <= 0

Result(v, n, w) == [verdict |-> v, decodes |-> n, warnings |-> w]

\* The decode-sample loop over (head, tail).
DecodeSamples(in, w) ==
    CASE in.head = "fail"    -> Result("reject", 1, w)
      [] in.head = "timeout" -> Result("raise", 1, w)
      [] in.tail = "fail"    -> Result("reject", 2, w)
      [] in.tail = "timeout" -> Result("raise", 2, w)
      [] OTHER ->
           Result("accept", 2,
                  w \cup (IF "stderr" \in {in.head, in.tail}
                          THEN {"decode"} ELSE {}))

\* verify_mp4 as it would be if a missing subtitle track were a hard failure.
verify_mp4_SubtitleRequired(in, has_subtitles_expected) ==
    IF ~in.exists \/ in.size = 0 THEN Result("reject", 0, {})
    ELSE IF in.probe_rc # 0 THEN Result("reject", 0, {})
    ELSE IF ~in.stdout.json THEN Result("reject", 0, {})
    ELSE LET duration == float(in.stdout.duration) IN
         IF duration.kind = "ValueError" THEN Result("raise", 0, {})
         ELSE IF NonPositive(duration) THEN Result("reject", 0, {})
         ELSE IF has_subtitles_expected /\ ~in.stdout.subtitle_stream
              THEN Result("reject", 0, {"subtitle"})
              ELSE DecodeSamples(in, {})

\* verify_mp4(filepath, episode_code, has_subtitles_expected): the verdict
\* ("accept" = True, "reject" = False, "raise" = an exception leaves the
\* function), the number of decode passes run and the warnings printed.
verify_mp4(in, has_subtitles_expected) ==
    IF ~in.exists \/ in.size = 0 THEN Result("reject", 0, {})
    ELSE IF in.probe_rc # 0 THEN Result("reject", 0, {})
    ELSE IF ~in.stdout.json THEN Result("reject", 0, {})
    ELSE LET duration == float(in.stdout.duration) IN
         IF duration.kind = "ValueError" THEN Result("raise", 0, {})
         ELSE IF NonPositive(duration) THEN Result("reject", 0, {})
         ELSE DecodeSamples(in,
                  IF has_subtitles_expected /\ ~in.stdout.subtitle_stream
                  THEN {"subtitle"} ELSE {})

\* The verdicts verify_mp4 can give for a file that is or is not there.
VerifyVerdicts ==
    {<<in.exists, f, verify_mp4(in, f).verdict>> :
        in \in VerifyInputs, f \in BOOLEAN}

NoInput == [exists |-> FALSE, size |-> 0, probe_rc |-> 0,
            stdout |-> [json |-> FALSE, duration |-> "absent",
                        subtitle_stream |-> FALSE],
            head |-> "ok", tail |-> "ok"]
NoResult == Result("none", 0, {})

\* ------------------------------------------------------------------------
\* State
\* ------------------------------------------------------------------------

VARIABLES
    mainPc,         \* where main() is
    nxt,            \* index of the next JSON file of the launch loop
    threads,        \* the threads list of main()
    keep_temp,      \* args.keep_temp
    closed,         \* number of calls of ProgressDisplay.close()
    interrupted,    \* a KeyboardInterrupt arrived after a thread was started
    _stop_event,    \* the stop event
    permits,        \* the value of _download_semaphore
    fs,             \* the paths that exist
    stem,           \* the output stem of each episode file
    pc,             \* where each job thread is
    existed,        \* final_path existed when the thread was started
    acquired,       \* number of acquire() calls that returned, per job
    calls,          \* the external calls each job has made
    terminated,     \* the job terminated yt-dlp on the stop event
    sub_error,      \* what failed in the subtitle step of the job
    has_subtitles,  \* the local has_subtitles of the job
    ffmpeg_cmd,     \* the argument shape of the job's mux call
    expected,       \* has_subtitles_expected passed to verify_mp4
    outcome,        \* how the job ended, or "none"
    vin, vflag, vres, \* one call of verify_mp4: arguments and result
    _progress_display,  \* the fields of the ProgressDisplay object
    stdout,         \* the lines on the terminal, the cursor below the last
    clock,          \* time.monotonic(), in ticks
    hist            \* what is recorded about the calls on the display

vars == <<mainPc, nxt, threads, keep_temp, closed,
          interrupted, _stop_event, permits, fs, stem, pc, existed, acquired,
          calls, terminated, sub_error, has_subtitles, ffmpeg_cmd, expected,
          outcome, vin, vflag, vres, _progress_display, stdout, clock,
          hist>>

mainVars == <<mainPc, nxt, threads, closed, interrupted>>
jobVars  == <<pc, existed, acquired, calls, terminated, sub_error,
              has_subtitles, ffmpeg_cmd, expected, outcome>>
argVars  == <<keep_temp, stem>>
verifyVars == <<vin, vflag, vres>>
displayVars == <<_progress_display, stdout, clock, hist>>
asideVars == <<verifyVars, displayVars>>

\* ------------------------------------------------------------------------
\* ProgressDisplay and the terminal it writes to
\* ------------------------------------------------------------------------

\* The last tick of the clock.
MaxClock == 4

\* The number of lines on the terminal up to which jobs print messages.
MaxScreen == 5

\* The 1.0 second of the redraw throttle, in clock ticks of half a second.
OneSecond == 2

\* json_data.get('episode_code', ''): the file with the stem "video" has
\* neither title nor episode_code, the other one has both.
Codes == {"", "S01E02"}
episode_code(j) == IF stem[j] = "video" THEN "" ELSE "S01E02"

\* f"[{episode_code}] {text}", the form of a progress row and of a tagged
\* message.
Line(code, text) == <<code, text>>

\* The texts a progress row shows: the initial one and one of yt-dlp's
\* progress texts.
WaitingForSlot == "Waiting for slot"
Texts == {"50%"}
RowTexts == Texts \cup {WaitingForSlot}

\* The other lines that reach the terminal.
Banner(code) == <<code, "---">>
Tagged(code) == Line(code, "Muxing")
Converted == <<"print", "Converted subtitles saved to">>
InvalidData == <<"print", "Error: Invalid episode data">>

Max(a, b) == IF a >= b THEN a ELSE b

\* The terminal after CLEAR_LINE + line + "\n" for each of ls, starting at
\* row at: rows that are there are overwritten, the others are added.
WriteLines(scr, at, ls) ==
    [i \in 1..Max(Len(scr), at + Len(ls) - 1) |->
        IF i >= at /\ i < at + Len(ls) THEN ls[i - at + 1] ELSE scr[i]]

\* The row the cursor is in after _UP.format(n), from below the last line;
\* the terminal does not move it above the first row.
Up(scr, n) == Max(1, Len(scr) + 1 - n)

\* ProgressDisplay.__init__; a key that is not in _slots is 0 here, and
\* _last_update.get(episode_code, 0.0) is the value at the key.
ProgressDisplay(tty) ==
    [_tty |-> tty,
     _slots |-> [c \in Codes |-> 0],
     _lines |-> <<>>,
     _last_update |-> [c \in Codes |-> 0]]

\* _redraw_block: up n rows, then every line of the block.
_redraw_block(d, scr) ==
    IF Len(d._lines) = 0 THEN scr
    ELSE WriteLines(scr, Up(scr, Len(d._lines)), d._lines)

\* AppendRow as it would be if a code that has a row got that row again.
AppendRow_Reuse(lines, slots, code, line) ==
    IF slots[code] # 0 THEN [lines EXCEPT ![slots[code]] = line]
    ELSE Append(lines, line)

\* self._lines.append(line)
AppendRow(lines, slots, code, line) == Append(lines, line)

\* register: the fields after it, and the terminal after it.
register(d, episode_code_, initial_text) ==
    [d EXCEPT !._slots[episode_code_] = Len(d._lines) + 1,
              !._lines = AppendRow(d._lines, d._slots, episode_code_,
                                   Line(episode_code_, initial_text)),
              !._last_update[episode_code_] = 0]
register_out(scr, episode_code_, initial_text) ==
    Append(scr, Line(episode_code_, initial_text))

\* update: whether it redraws, the fields after it, the terminal after it.
update_redraws(d, episode_code_, now) ==
    /\ d._slots[episode_code_] # 0
    /\ d._tty
    /\ ~(now - d._last_update[episode_code_] < OneSecond)
update(d, episode_code_, text, now) ==
    IF d._slots[episode_code_] = 0 THEN d
    ELSE LET idx == d._slots[episode_code_]
             e == [d EXCEPT !._lines[idx] = Line(episode_code_, text)]
         IN  IF update_redraws(d, episode_code_, now)
             THEN [e EXCEPT !._last_update[episode_code_] = now]
             ELSE e
update_out(d, scr, episode_code_, text, now) ==
    IF update_redraws(d, episode_code_, now)
    THEN _redraw_block(update(d, episode_code_, text, now), scr)
    ELSE scr

\* message: the terminal after it.
message(d, scr, text) ==
    IF ~d._tty \/ Len(d._lines) = 0 THEN Append(scr, text)
    ELSE WriteLines(scr, Up(scr, Len(d._lines)), <<text>> \o d._lines)

\* print(...): a line at the cursor, with no part of the display involved.
print(scr, text) == Append(scr, text)

\* Nothing recorded yet: no job has a row, no update has redrawn, no call
\* was made, nothing was printed past the display while a job thread ran.
NoHist ==
    [row_of |-> [j \in Jobs |-> 0],
     drawn_at |-> [c \in Codes |-> -1],
     last |-> <<"none", 0>>,
     touched |-> 0,
     raw_writes |-> 0]

\* The display where it plays no part: as constructed for a stdout that is
\* no tty, nothing written.
DisplayIdle ==
    /\ _progress_display = ProgressDisplay(FALSE)
    /\ stdout = <<>>
    /\ clock = OneSecond
    /\ hist = NoHist

\* The stems of the episode files.  Which stem is which does not matter, so
\* the first file is given "video" and every other file either stem.
StemAssignments == {f \in [Jobs -> Stems] : f[1] = "video"}

JobsInit ==
    /\ pc = [j \in Jobs |-> "unstarted"]
    /\ existed = [j \in Jobs |-> FALSE]
    /\ acquired = [j \in Jobs |-> 0]
    /\ calls = [j \in Jobs |-> {}]
    /\ terminated = [j \in Jobs |-> FALSE]
    /\ sub_error = [j \in Jobs |-> "none"]
    /\ has_subtitles = [j \in Jobs |-> FALSE]
    /\ ffmpeg_cmd = [j \in Jobs |-> "none"]
    /\ expected = [j \in Jobs |-> "none"]
    /\ outcome = [j \in Jobs |-> "none"]

MainInit ==
    /\ mainPc = "start"
    /\ nxt = 1
    /\ threads = {}
    /\ closed = 0
    /\ interrupted = FALSE
    /\ _stop_event = FALSE
    /\ permits = MAX_CONCURRENT_DOWNLOADS

\* The state after the module is imported and before main() runs: the
\* display is constructed and not yet closed, no thread runs,
\* the temporary directory holds none of the jobs' files, and any of the
\* final files may be there from an earlier run.
Init ==
    /\ MainInit
    /\ JobsInit
    /\ keep_temp \in BOOLEAN
    /\ stem \in StemAssignments
    /\ fs \in SUBSET FinalPaths
    /\ vin = NoInput /\ vflag = FALSE /\ vres = NoResult
    /\ DisplayIdle

\* ------------------------------------------------------------------------
\* download_episode: one thread per job
\* ------------------------------------------------------------------------

Set(f, j, v) == [f EXCEPT ![j] = v]
Called(j, c) == [calls EXCEPT ![j] = @ \cup c]

alive(j) == pc[j] \notin {"unstarted", "done"}

\* The places of download_episode between acquire() and release().
HoldingPcs == {"check", "streaming", "fetched", "mux", "verify", "move",
               "cleanup"}
Holders == {j \in Jobs : pc[j] \in HoldingPcs}

\* Finally as it would be if the permit were not given back.
Finally_NoRelease(j, how) ==
    /\ permits' = permits
    /\ pc' = Set(pc, j, "done")
    /\ outcome' = Set(outcome, j, how)
    /\ existed' = Set(existed, j, FALSE)
    /\ calls' = Set(calls, j, {})
    /\ terminated' = Set(terminated, j, FALSE)
    /\ sub_error' = Set(sub_error, j, "none")
    /\ has_subtitles' = Set(has_subtitles, j, FALSE)
    /\ ffmpeg_cmd' = Set(ffmpeg_cmd, j, "none")
    /\ expected' = Set(expected, j, "none")

\* The thread leaves download_episode: the finally releases the permit and
\* the frame of the call (its locals and what is recorded about them) is gone.
Finally(j, how) ==
    /\ permits' = permits + 1
    /\ pc' = Set(pc, j, "done")
    /\ outcome' = Set(outcome, j, how)
    /\ existed' = Set(existed, j, FALSE)
    /\ calls' = Set(calls, j, {})
    /\ terminated' = Set(terminated, j, FALSE)
    /\ sub_error' = Set(sub_error, j, "none")
    /\ has_subtitles' = Set(has_subtitles, j, FALSE)
    /\ ffmpeg_cmd' = Set(ffmpeg_cmd, j, "none")
    /\ expected' = Set(expected, j, "none")

\* _progress_display.register(episode_code, "Waiting for slot...")
Register(j) ==
    /\ pc[j] = "register"
    /\ pc' = Set(pc, j, "acquire")
    /\ UNCHANGED <<mainVars, argVars, asideVars, _stop_event, permits, fs,
                   existed, acquired, calls, terminated, sub_error,
                   has_subtitles, ffmpeg_cmd, expected, outcome>>

\* Acquire as it would be if acquire() did not block on an empty pool.
Acquire_NoWait(j) ==
    /\ pc[j] = "acquire"
    /\ permits' = permits - 1
    /\ acquired' = Set(acquired, j, acquired[j] + 1)
    /\ pc' = Set(pc, j, "check")
    /\ UNCHANGED <<mainVars, argVars, asideVars, _stop_event, fs, existed,
                   calls, terminated, sub_error, has_subtitles, ffmpeg_cmd,
                   expected, outcome>>

\* _download_semaphore.acquire(): blocks while the value is 0.
Acquire(j) ==
    /\ pc[j] = "acquire"
    /\ permits > 0
    /\ permits' = permits - 1
    /\ acquired' = Set(acquired, j, acquired[j] + 1)
    /\ pc' = Set(pc, j, "check")
    /\ UNCHANGED <<mainVars, argVars, asideVars, _stop_event, fs, existed,
                   calls, terminated, sub_error, has_subtitles, ffmpeg_cmd,
                   expected, outcome>>

\* Skip as it would be if the early return were outside the try block: the
\* frame is left and the permit is kept.
Skip_NoRelease(j) ==
    /\ pc[j] = "check"
    /\ final_path(stem[j]) \in fs
    /\ pc' = Set(pc, j, "done")
    /\ outcome' = Set(outcome, j, "skipped")
    /\ existed' = Set(existed, j, FALSE)
    /\ calls' = Set(calls, j, {})
    /\ terminated' = Set(terminated, j, FALSE)
    /\ sub_error' = Set(sub_error, j, "none")
    /\ has_subtitles' = Set(has_subtitles, j, FALSE)
    /\ ffmpeg_cmd' = Set(ffmpeg_cmd, j, "none")
    /\ expected' = Set(expected, j, "none")
    /\ UNCHANGED <<mainVars, argVars, asideVars, _stop_event, permits, fs,
                   acquired>>

\* if os.path.exists(final_path): ... return
Skip(j) ==
    /\ pc[j] = "check"
    /\ final_path(stem[j]) \in fs
    /\ Finally(j, "skipped")
    /\ UNCHANGED <<mainVars, argVars, asideVars, _stop_event, fs, acquired>>

\* _run_yt_dlp: subprocess.Popen(['yt-dlp', ...])
StartDownload(j) ==
    /\ pc[j] = "check"
    /\ final_path(stem[j]) \notin fs
    /\ calls' = Called(j, {"yt-dlp"})
    /\ pc' = Set(pc, j, "streaming")
    /\ UNCHANGED <<mainVars, argVars, asideVars, _stop_event, permits, fs,
                   existed, acquired, terminated, sub_error, has_subtitles,
                   ffmpeg_cmd, expected, outcome>>

\* _run_yt_dlp: a line arrives while the stop event is set: proc.terminate(),
\* break, proc.wait().  yt-dlp may or may not have written mp4_path.
StreamStop(j) ==
    /\ pc[j] = "streaming"
    /\ _stop_event
    /\ terminated' = Set(terminated, j, TRUE)
    /\ \E wrote \in BOOLEAN :
         fs' = IF wrote THEN fs \cup {mp4_path(stem[j])} ELSE fs
    /\ pc' = Set(pc, j, "fetched")
    /\ UNCHANGED <<mainVars, argVars, asideVars, _stop_event, permits,
                   existed, acquired, calls, sub_error, has_subtitles,
                   ffmpeg_cmd, expected, outcome>>

\* _run_yt_dlp: yt-dlp closes its output and exits; its exit status is not
\* read, so it may or may not have written mp4_path.
StreamEnd(j) ==
    /\ pc[j] = "streaming"
    /\ \E wrote \in BOOLEAN :
         fs' = IF wrote THEN fs \cup {mp4_path(stem[j])} ELSE fs
    /\ pc' = Set(pc, j, "fetched")
    /\ UNCHANGED <<mainVars, argVars, asideVars, _stop_event, permits,
                   existed, acquired, calls, terminated, sub_error,
                   has_subtitles, ffmpeg_cmd, expected, outcome>>

\* What can go wrong in the try block of the subtitle step: urlretrieve
\* raises, or convert_ttml_to_vtt raises (tt exits non-zero or is missing).
SubtitleErrors == {"none", "fetch", "convert"}

\* has_subtitles after the try/except: os.path.exists(vtt_path) when nothing
\* raised, else the False it was initialised to.
SubtitleResult(err, vtt_exists) == IF err = "none" THEN vtt_exists ELSE FALSE

\* AfterSubtitle as it would be without the except clause.
AfterSubtitle_Uncaught(err) == IF err = "none" THEN "mux" ELSE "done"

\* Where the job goes after the subtitle step: "except Exception" catches
\* whatever the try block raises.
AfterSubtitle(err) == "mux"

\* has_subtitles = False; try: urlretrieve; convert_ttml_to_vtt; ... except
Subtitles(j) ==
    /\ pc[j] = "fetched"
    /\ \E err \in SubtitleErrors, wrote \in BOOLEAN :
         /\ err # "none" => ~wrote
         /\ fs' = fs \cup (IF err = "fetch" THEN {} ELSE {ttml_path(stem[j])})
                     \cup (IF wrote THEN {vtt_path(stem[j])} ELSE {})
         /\ IF AfterSubtitle(err) = "mux"
            THEN /\ sub_error' = Set(sub_error, j, err)
                 /\ calls' = Called(j, IF err = "fetch" THEN {"urlretrieve"}
                                        ELSE {"urlretrieve", "tt"})
                 /\ has_subtitles' =
                      Set(has_subtitles, j,
                          SubtitleResult(err, vtt_path(stem[j]) \in fs'))
                 /\ pc' = Set(pc, j, "mux")
                 /\ UNCHANGED <<permits, outcome, existed, terminated,
                                ffmpeg_cmd, expected>>
            ELSE Finally(j, "raised")
    /\ UNCHANGED <<mainVars, argVars, asideVars, _stop_event, acquired>>

\* AfterMux as it would be if the exit status were not tested.
AfterMux_Unchecked(returncode) == "verify"

\* Where the job goes after the mux call, by ffmpeg's exit status.
AfterMux(returncode) == IF returncode # 0 THEN "cleanup" ELSE "verify"

\* proc = subprocess.run(ffmpeg_cmd, capture_output=True).  ffmpeg exits 0
\* only when its inputs are there, and then muxed_path is written.
Mux(j) ==
    /\ pc[j] = "mux"
    /\ ffmpeg_cmd' = Set(ffmpeg_cmd, j, IF has_subtitles[j]
                                        THEN "with subtitles"
                                        ELSE "no subtitles")
    /\ calls' = Called(j, {"ffmpeg"})
    /\ \E returncode \in {0, 1} :
         /\ returncode = 0 =>
              /\ mp4_path(stem[j]) \in fs
              /\ has_subtitles[j] => vtt_path(stem[j]) \in fs
         /\ fs' = IF returncode = 0
                  THEN fs \cup {muxed_path(stem[j])} ELSE fs
         /\ outcome' = IF returncode # 0
                       THEN Set(outcome, j, "mux_error") ELSE outcome
         /\ pc' = Set(pc, j, AfterMux(returncode))
    /\ UNCHANGED <<mainVars, argVars, asideVars, _stop_event, permits,
                   existed, acquired, terminated, sub_error, has_subtitles,
                   expected>>

\* verify_mp4(muxed_path, episode_code, has_subtitles_expected=has_subtitles)
\* An exception of verify_mp4 leaves download_episode through the finally.
Verify(j) ==
    /\ pc[j] = "verify"
    /\ \E v \in VerifyVerdicts :
         /\ v[1] = (muxed_path(stem[j]) \in fs)
         /\ v[2] = has_subtitles[j]
         /\ IF v[3] = "raise"
            THEN Finally(j, "raised")
            ELSE /\ pc' = Set(pc, j, IF v[3] = "accept" THEN "move"
                                     ELSE "cleanup")
                 /\ outcome' = IF v[3] = "accept" THEN outcome
                               ELSE Set(outcome, j, "verify_failed")
                 /\ expected' = Set(expected, j, IF has_subtitles[j]
                                                 THEN "yes" ELSE "no")
                 /\ calls' = Called(j, {"verify_mp4"})
                 /\ UNCHANGED <<permits, existed, terminated, sub_error,
                                has_subtitles, ffmpeg_cmd>>
    /\ UNCHANGED <<mainVars, argVars, asideVars, _stop_event, fs, acquired>>

\* shutil.move(muxed_path, final_path); it raises when muxed_path is gone.
Move(j) ==
    /\ pc[j] = "move"
    /\ IF muxed_path(stem[j]) \in fs
       THEN /\ fs' = (fs \ {muxed_path(stem[j])}) \cup {final_path(stem[j])}
            /\ outcome' = Set(outcome, j, "saved")
            /\ pc' = Set(pc, j, "cleanup")
            /\ UNCHANGED <<permits, existed, calls, terminated, sub_error,
                           has_subtitles, ffmpeg_cmd, expected>>
       ELSE /\ Finally(j, "raised")
            /\ UNCHANGED fs
    /\ UNCHANGED <<mainVars, argVars, asideVars, _stop_event, acquired>>

\* CleanupPaths as it would be without "muxed_path = None".
CleanupPaths_All(s, verify_failed) ==
    {mp4_path(s), ttml_path(s), vtt_path(s), muxed_path(s)}

\* The paths the cleanup loop removes: (mp4_path, ttml_path, vtt_path,
\* muxed_path), where muxed_path is None after a failed verification.
CleanupPaths(s, verify_failed) ==
    {mp4_path(s), ttml_path(s), vtt_path(s)}
    \cup (IF verify_failed THEN {} ELSE {muxed_path(s)})

\* if not keep_temp: remove the paths that exist; "Done."; finally: release
Cleanup(j) ==
    /\ pc[j] = "cleanup"
    /\ fs' = IF keep_temp THEN fs
             ELSE fs \ CleanupPaths(stem[j], outcome[j] = "verify_failed")
    /\ Finally(j, outcome[j])
    /\ UNCHANGED <<mainVars, argVars, asideVars, _stop_event, acquired>>

Job(j) ==
    \/ Register(j) \/ Acquire(j) \/ Skip(j) \/ StartDownload(j)
    \/ StreamStop(j) \/ StreamEnd(j) \/ Subtitles(j) \/ Mux(j)
    \/ Verify(j) \/ Move(j) \/ Cleanup(j)

\* ------------------------------------------------------------------------
\* main
\* ------------------------------------------------------------------------

jobOnly == <<argVars, asideVars, _stop_event, permits, fs, acquired, calls,
             terminated, sub_error, has_subtitles, ffmpeg_cmd, expected,
             outcome>>

\* ProgressDisplay.close()
close == closed' = closed + 1

\* The return statements before the launch loop: a missing dependency, an
\* input path that is no file or directory, a directory without JSON files.
EarlyReturn ==
    /\ mainPc = "start"
    /\ mainPc' = "returned"
    /\ UNCHANGED <<nxt, threads, closed, interrupted, pc,
                   existed, jobOnly>>

\* threads = []; queued = 0
EnterLaunch ==
    /\ mainPc = "start"
    /\ mainPc' = "launch"
    /\ UNCHANGED <<nxt, threads, closed, interrupted, pc,
                   existed, jobOnly>>

\* One round of the launch loop: load_json_data and process_episode; a file
\* that does not load or validate starts no thread.
Launch ==
    /\ mainPc = "launch"
    /\ nxt <= NumJobs
    /\ \E valid \in BOOLEAN :
         IF valid
         THEN /\ pc' = Set(pc, nxt, "register")
              /\ threads' = threads \cup {nxt}
              /\ existed' = Set(existed, nxt, final_path(stem[nxt]) \in fs)
         ELSE UNCHANGED <<pc, threads, existed>>
    /\ nxt' = nxt + 1
    /\ UNCHANGED <<mainPc, closed, interrupted, jobOnly>>

\* The launch loop ends; main enters the try block of the join loop.
EnterJoin ==
    /\ mainPc = "launch"
    /\ nxt > NumJobs
    /\ mainPc' = "join"
    /\ UNCHANGED <<nxt, threads, closed, interrupted, pc,
                   existed, jobOnly>>

\* KeyboardInterrupt in the launch loop: no handler encloses it, so it
\* leaves main().  (The model delivers one KeyboardInterrupt per run.)
InterruptLaunch ==
    /\ mainPc = "launch"
    /\ mainPc' = "raised"
    /\ interrupted' = (interrupted \/ threads # {})
    /\ UNCHANGED <<nxt, threads, closed, pc, existed, jobOnly>>

\* The polling join loop finds every thread dead: else branch, then the
\* finally closes the display.
JoinDone ==
    /\ mainPc = "join"
    /\ \A t \in threads : ~alive(t)
    /\ close
    /\ mainPc' = "rmtree"
    /\ UNCHANGED <<nxt, threads, interrupted, pc, existed, jobOnly>>

\* except KeyboardInterrupt: _stop_event.set()
InterruptJoin ==
    /\ mainPc = "join"
    /\ _stop_event' = TRUE
    /\ interrupted' = (interrupted \/ threads # {})
    /\ mainPc' = "except"
    /\ UNCHANGED <<nxt, threads, closed, pc, existed, argVars,
                   asideVars, permits, fs, acquired, calls, terminated,
                   sub_error, has_subtitles, ffmpeg_cmd, expected, outcome>>

\* for thread in threads: thread.join(); then the finally closes the display.
ExceptJoined ==
    /\ mainPc = "except"
    /\ \A t \in threads : ~alive(t)
    /\ close
    /\ mainPc' = "rmtree"
    /\ UNCHANGED <<nxt, threads, interrupted, pc, existed, jobOnly>>

\* if args.keep_temp: ... else: shutil.rmtree(temp_dir)
Rmtree ==
    /\ mainPc = "rmtree"
    /\ fs' = IF keep_temp THEN fs ELSE fs \ TempPaths
    /\ mainPc' = "exited"
    /\ UNCHANGED <<nxt, threads, closed, interrupted, pc,
                   existed, argVars, asideVars, _stop_event, permits,
                   acquired, calls, terminated, sub_error, has_subtitles,
                   ffmpeg_cmd, expected, outcome>>

Next ==
    \/ EarlyReturn \/ EnterLaunch \/ Launch \/ EnterJoin \/ InterruptLaunch
    \/ JoinDone \/ InterruptJoin \/ ExceptJoined \/ Rmtree
    \/ \E j \in Jobs : Job(j)

Spec == Init /\ [][Next]_vars

\* Spec with a scheduler that lets every runnable thread run and external
\* tools that all terminate: a job thread that can take a step eventually
\* takes one.  Nothing is assumed about main() or about the interrupt.
FairSpec == Spec /\ \A j \in Jobs : WF_vars(Job(j))

\* MAX_CONCURRENT_DOWNLOADS as the source sets it.
DefaultPermits == 6

\* Init with the semaphore at the source's value, so that every job of the
\* run gets a permit at once.
DefaultInit ==
    /\ mainPc = "start"
    /\ nxt = 1
    /\ threads = {}
    /\ closed = 0
    /\ interrupted = FALSE
    /\ _stop_event = FALSE
    /\ permits = DefaultPermits
    /\ JobsInit
    /\ keep_temp \in BOOLEAN
    /\ stem \in StemAssignments
    /\ fs \in SUBSET FinalPaths
    /\ vin = NoInput /\ vflag = FALSE /\ vres = NoResult
    /\ DisplayIdle

DefaultSpec == DefaultInit /\ [][Next]_vars

\* ------------------------------------------------------------------------
\* One call of verify_mp4 on any input
\* ------------------------------------------------------------------------

VerifyInit ==
    /\ MainInit
    /\ JobsInit
    /\ keep_temp = FALSE
    /\ stem = [j \in Jobs |-> "video"]
    /\ fs = {}
    /\ vin \in VerifyInputs
    /\ vflag \in BOOLEAN
    /\ vres = NoResult
    /\ DisplayIdle

VerifyCall ==
    /\ vres = NoResult
    /\ vres' = verify_mp4(vin, vflag)
    /\ UNCHANGED <<mainVars, jobVars, argVars, displayVars, _stop_event,
                   permits, fs, vin, vflag>>

VerifySpec == VerifyInit /\ [][VerifyCall]_vars

\* ------------------------------------------------------------------------
\* The calls on the display, in every order main() and the job threads can
\* make them.  The steps of the pipeline between the calls are those of Spec
\* and are left out: a job that has registered stays where it makes its
\* calls of update and message.
\* ------------------------------------------------------------------------

pipelineVars == <<argVars, verifyVars, _stop_event, permits, fs, closed,
                  interrupted, existed, acquired, calls, terminated,
                  sub_error, has_subtitles, ffmpeg_cmd, expected, outcome>>

Recorded(op, j) == [hist EXCEPT !.last = <<op, j>>]

DisplayInit ==
    /\ MainInit
    /\ JobsInit
    /\ keep_temp = FALSE
    /\ stem \in StemAssignments
    /\ fs = {}
    /\ vin = NoInput /\ vflag = FALSE /\ vres = NoResult
    /\ _progress_display \in {ProgressDisplay(tty) : tty \in BOOLEAN}
    /\ stdout = <<>>
    /\ clock = OneSecond
    /\ hist = NoHist

\* One round of the launch loop.  process_episode prints the validation
\* error with print(), or sends the banner through message() and starts the
\* thread.
DisplayLaunch ==
    /\ mainPc = "launch"
    /\ nxt <= NumJobs
    /\ \E valid \in BOOLEAN :
         IF valid
         THEN /\ stdout' = message(_progress_display, stdout,
                                   Banner(episode_code(nxt)))
              /\ hist' = Recorded("message", 0)
              /\ pc' = Set(pc, nxt, "register")
              /\ threads' = threads \cup {nxt}
         ELSE /\ stdout' = print(stdout, InvalidData)
              /\ hist' = [Recorded("print", 0)
                            EXCEPT !.raw_writes =
                                       IF threads # {} THEN @ + 1 ELSE @]
              /\ UNCHANGED <<pc, threads>>
    /\ nxt' = nxt + 1
    /\ UNCHANGED <<mainPc, _progress_display, clock, pipelineVars>>

\* _progress_display.register(episode_code, "Waiting for slot…"), the first
\* statement of the thread.
DisplayRegister(j) ==
    /\ pc[j] = "register"
    /\ _progress_display' =
         register(_progress_display, episode_code(j), WaitingForSlot)
    /\ stdout' = register_out(stdout, episode_code(j), WaitingForSlot)
    /\ hist' = [Recorded("register", j)
                  EXCEPT !.row_of[j] = Len(_progress_display._lines) + 1]
    /\ pc' = Set(pc, j, "acquire")
    /\ UNCHANGED <<mainPc, nxt, threads, clock, pipelineVars>>

\* _progress_display.update(episode_code, text), from _run_yt_dlp or from
\* download_episode.  The stamp is read just before the lock is taken.
DisplayUpdate(j) ==
    /\ pc[j] = "acquire"
    /\ \E text \in Texts :
         LET code == episode_code(j)
             now == clock
         IN  /\ _progress_display' =
                  update(_progress_display, code, text, now)
             /\ stdout' = update_out(_progress_display, stdout, code, text,
                                     now)
             /\ hist' = [Recorded("update", j)
                           EXCEPT !.touched = _progress_display._slots[code],
                                  !.drawn_at[code] =
                                      IF update_redraws(_progress_display,
                                                        code, now)
                                      THEN now ELSE @]
    /\ UNCHANGED <<mainPc, nxt, threads, pc, clock, pipelineVars>>

\* _tagged_print(episode_code, ...): a message of the job.
DisplayMessage(j) ==
    /\ pc[j] = "acquire"
    /\ Len(stdout) < MaxScreen
    /\ stdout' = message(_progress_display, stdout,
                         Tagged(episode_code(j)))
    /\ hist' = Recorded("message", j)
    /\ UNCHANGED <<mainPc, nxt, threads, pc, _progress_display, clock,
                   pipelineVars>>

\* convert_ttml_to_vtt, called by the job thread: print(f"Converted
\* subtitles saved to: ...").
DisplayPrint(j) ==
    /\ pc[j] = "acquire"
    /\ Len(stdout) < MaxScreen
    /\ stdout' = print(stdout, Converted)
    /\ hist' = [Recorded("print", j) EXCEPT !.raw_writes = @ + 1]
    /\ UNCHANGED <<mainPc, nxt, threads, pc, _progress_display, clock,
                   pipelineVars>>

\* Half a second passes.
Tick ==
    /\ clock < MaxClock
    /\ clock' = clock + 1
    /\ UNCHANGED <<mainPc, nxt, threads, pc, _progress_display, stdout,
                   hist, pipelineVars>>

DisplayNext ==
    \/ EnterLaunch \/ DisplayLaunch \/ Tick
    \/ \E j \in Jobs : \/ DisplayRegister(j) \/ DisplayUpdate(j)
                       \/ DisplayMessage(j) \/ DisplayPrint(j)

DisplaySpec == DisplayInit /\ [][DisplayNext]_vars

\* ------------------------------------------------------------------------
\* Properties
\* ------------------------------------------------------------------------

\* C1: in every reachable state the number of jobs that hold a permit of
\* the semaphore (acquired and not yet released) is at most the capacity.
C1_PermitsHeldAtMostCapacity ==
    Cardinality(Holders) <= MAX_CONCURRENT_DOWNLOADS

\* C1 witness: the pool is exhausted while another job waits for a slot.
C1_Witness ==
    /\ Cardinality(Holders) = MAX_CONCURRENT_DOWNLOADS
    /\ \E j \in Jobs : pc[j] = "acquire"

\* C2 (as claimed): a job whose final path existed when it was started makes
\* no external call and never acquires a permit.
C2_SkippedJobTakesNoPermit ==
    \A j \in Jobs : existed[j] => acquired[j] = 0 /\ calls[j] = {}

\* C3 (as claimed): a job that terminated yt-dlp on the stop event makes no
\* subtitle fetch, conversion, mux or verification call and publishes nothing.
C3_CancelledFetchEndsTheJob ==
    \A j \in Jobs :
        terminated[j] =>
            /\ calls[j] \subseteq {"yt-dlp"}
            /\ pc[j] \notin {"mux", "verify", "move"}
            /\ outcome[j] # "saved"

\* C4 (as claimed): after a KeyboardInterrupt that arrives once a thread has
\* been started, the stop event is set, and main() is left only when every
\* started thread has exited.
C4_InterruptSetsStopAndJoins ==
    interrupted =>
        /\ _stop_event
        /\ mainPc \in {"raised", "rmtree", "exited"} =>
               \A t \in threads : ~alive(t)

\* C5 (as claimed): on every way out of main() the display has been closed
\* exactly once.
C5_ClosedOnceOnEveryExit ==
    mainPc \in {"returned", "raised", "rmtree", "exited"} => closed = 1

\* C6: when ffmpeg exits non-zero in the mux step, the job goes to its
\* cleanup and ends there: verify_mp4 is never called for it, it never
\* reaches the move to the final path, and its outcome stays the mux error.
C6_Step ==
    \A j \in Jobs :
        /\ outcome'[j] = "mux_error" =>
              /\ pc'[j] \in {"cleanup", "done"}
              /\ "verify_mp4" \notin calls'[j]
              /\ expected'[j] = "none"
        /\ outcome[j] = "mux_error" => outcome'[j] = "mux_error"
C6_MuxFailureEndsTheJob == [][C6_Step]_vars

\* C6 witness: a job has ended after a mux error and its final path is absent.
C6_Witness ==
    \E j \in Jobs :
        /\ outcome[j] = "mux_error"
        /\ pc[j] = "done"
        /\ final_path(stem[j]) \notin fs

\* C7: when verify_mp4 rejects the muxed file, the job never moves it to the
\* final path, and the job's cleanup step leaves the muxed path as it is while
\* (unless keep_temp) the raw video, the TTML and the VTT file are gone after it.
C7_Step ==
    \A j \in Jobs :
        /\ outcome'[j] = "verify_failed" => pc'[j] \in {"cleanup", "done"}
        /\ outcome[j] = "verify_failed" => outcome'[j] = "verify_failed"
        /\ (pc[j] = "cleanup" /\ outcome[j] = "verify_failed"
                /\ pc'[j] = "done") =>
              /\ (muxed_path(stem[j]) \in fs') = (muxed_path(stem[j]) \in fs)
              /\ (final_path(stem[j]) \in fs') = (final_path(stem[j]) \in fs)
              /\ ~keep_temp =>
                    fs' \cap {mp4_path(stem[j]), ttml_path(stem[j]),
                              vtt_path(stem[j])} = {}
C7_RejectedFileIsKeptNotPublished == [][C7_Step]_vars

\* C7 witness: without keep_temp a job has ended after a rejection, and the
\* muxed file is still at its intermediate path.
C7_Witness ==
    \E j \in Jobs :
        /\ ~keep_temp
        /\ outcome[j] = "verify_failed"
        /\ pc[j] = "done"
        /\ muxed_path(stem[j]) \in fs

\* C8 (as claimed): once a muxed file has been rejected, no step of the
\* program removes it from its intermediate path.
C8_Step ==
    \A j \in Jobs :
        (outcome[j] = "verify_failed" /\ pc[j] = "done"
            /\ muxed_path(stem[j]) \in fs)
        => muxed_path(stem[j]) \in fs'
C8_RejectedFileIsNeverDeleted == [][C8_Step]_vars

\* C9: whatever fails in the subtitle step, the job leaves that step for the
\* mux step, with has_subtitles False; its mux call has the no-subtitle shape
\* and verify_mp4 is told that no subtitle is expected.
C9_Step ==
    \A j \in Jobs :
        /\ (pc[j] = "fetched" /\ pc'[j] # "fetched") => pc'[j] = "mux"
        /\ sub_error'[j] # "none" =>
              /\ ~has_subtitles'[j]
              /\ ffmpeg_cmd'[j] \in {"none", "no subtitles"}
              /\ expected'[j] \in {"none", "no"}
C9_SubtitleFailureNeverAborts == [][C9_Step]_vars

\* C9 witness: a job whose subtitle step failed has published its file.
C9_Witness ==
    \E j \in Jobs :
        /\ sub_error[j] # "none"
        /\ outcome[j] = "saved"
        /\ ffmpeg_cmd[j] = "no subtitles"
        /\ expected[j] = "no"
        /\ final_path(stem[j]) \in fs

\* The duration texts that are zero, missing or not a number.
BadDurations == {"absent", "0.000000", "N/A", ""}

\* C10 (as claimed): when the probe succeeds and its duration is zero,
\* missing or unparseable, verify_mp4 returns a rejection, whatever the
\* subtitle flag, and runs no decode pass.
C10_BadDurationIsRejected ==
    (/\ vres # NoResult
     /\ vin.exists /\ vin.size > 0 /\ vin.probe_rc = 0 /\ vin.stdout.json
     /\ vin.stdout.duration \in BadDurations)
    => vres.verdict = "reject" /\ vres.decodes = 0

\* The inputs that are non-empty, probe with a positive duration, and whose
\* head and tail decode passes both exit 0.
Decodable(in) ==
    /\ in.exists /\ in.size > 0 /\ in.probe_rc = 0 /\ in.stdout.json
    /\ float(in.stdout.duration).kind = "number"
    /\ float(in.stdout.duration).val > 0
    /\ in.head \in {"ok", "stderr"} /\ in.tail \in {"ok", "stderr"}

\* C11: verify_mp4 accepts every non-empty input that probes with a positive
\* duration and decodes at head and tail, also when a subtitle track was
\* expected and the stream inventory has none (then it only warns); the
\* verdict is the same for the other value of the flag.
C11_MissingSubtitleIsOnlyAWarning ==
    (vres # NoResult /\ Decodable(vin)) =>
        /\ vres.verdict = "accept"
        /\ vres.decodes = 2
        /\ verify_mp4(vin, ~vflag).verdict = vres.verdict
        /\ (vflag /\ ~vin.stdout.subtitle_stream) =>
               "subtitle" \in vres.warnings

\* C11 witness: a file without subtitle stream was accepted although a
\* subtitle track was expected.
C11_Witness ==
    /\ vres.verdict = "accept"
    /\ Decodable(vin)
    /\ vflag
    /\ ~vin.stdout.subtitle_stream
    /\ "subtitle" \in vres.warnings

\* The intermediate paths of job j that exist.
Leftovers(j, files) == {p \in files : p[1] = stem[j] /\ p[2] \in TempKinds}

\* The intermediate paths a finished job may leave behind: the muxed file
\* after a failed verification, and nothing otherwise.
Retained(j, how) ==
    IF how = "verify_failed" THEN {muxed_path(stem[j])} ELSE {}

C17_Step ==
    \A j \in Jobs :
        (/\ pc[j] # "done" /\ pc'[j] = "done"
         /\ ~keep_temp
         /\ outcome'[j] # "skipped")
        => Leftovers(j, fs') \subseteq Retained(j, outcome'[j])

\* C17: without --keep-temp, when a job that started work ends, with any
\* outcome (saved, verification failure, mux failure, or an exception raised
\* inside the job), none of its intermediate paths exists any more, except
\* the muxed file kept after a failed verification.
C17_NoIntermediateLeftAtJobEnd == [][C17_Step]_vars

C18_Step ==
    \A j \in Jobs :
        (_stop_event /\ pc[j] \in {"register", "acquire", "check"})
        => calls'[j] = {}

\* C18: once the stop event is set, a job that has not started yt-dlp yet
\* (it is registering, waiting for a permit, or has just got one) starts
\* neither yt-dlp nor any later external tool.
C18_NoNewWorkAfterStop == [][C18_Step]_vars

\* The outcomes of a job that failed.
Failed == {"mux_error", "verify_failed", "raised"}

\* C14: with fair scheduling and terminating tools, every job thread that was
\* started reaches the end of download_episode, in normal and in interrupted
\* runs, and main() passes its join only when every thread has; the failure
\* of one job (mux failure, verification failure, exception) does not keep a
\* sibling from getting a permit and ending too.
C14_EveryStartedJobEnds ==
    /\ \A j \in Jobs : (pc[j] = "register") ~> (pc[j] = "done")
    /\ [](mainPc \in {"rmtree", "exited"} =>
              \A t \in threads : pc[t] = "done")

\* C14 witness: main() is through, one job ended on an exception and a
\* sibling got its permit and saved its file.
C14_Witness ==
    /\ mainPc = "exited"
    /\ \E j \in Jobs, k \in Jobs :
         /\ j # k
         /\ pc[j] = "done" /\ outcome[j] \in Failed
         /\ pc[k] = "done" /\ outcome[k] = "saved" /\ acquired[k] = 1

\* The paths download_episode derives from the output stem of job j.
Paths(j) == {p \in TempPaths \cup FinalPaths : p[1] = stem[j]}

\* C15: no two jobs that are between acquire() and release() at the same
\* time use a common intermediate path or the same final path, whatever the
\* titles and episode codes of the JSON files are.
C15_ConcurrentJobsUseDisjointPaths ==
    \A j \in Holders, k \in Holders :
        j # k => Paths(j) \cap Paths(k) = {}

\* The jobs whose call of register has returned.
Registered == {j \in Jobs : pc[j] \notin {"unstarted", "register"}}

C12_Step ==
    /\ Len(_progress_display'._lines) >= Len(_progress_display._lines)
    /\ \A i \in 1..Len(_progress_display._lines) :
           _progress_display'._lines[i][1] = _progress_display._lines[i][1]

\* C12: in every order of register, update and message calls the display
\* has as many rows as jobs have registered, the number of rows never goes
\* down, and the rows that are there stay in place under their labels: only
\* their text changes.
C12_RowsAreAppendOnly ==
    /\ [](Len(_progress_display._lines) = Cardinality(Registered))
    /\ [][C12_Step]_vars

\* C12 witness: two rows are there, an update has changed the text of one,
\* and a message went through the display after that.
C12_Witness ==
    /\ Len(_progress_display._lines) >= 2
    /\ \E i \in 1..Len(_progress_display._lines) :
           _progress_display._lines[i][2] \in Texts
    /\ hist.last[1] = "message"

\* C13: of two jobs that main() started one after the other, the earlier
\* one has its row first (a lower row index), however the job threads are
\* scheduled.
C13_RowsInLaunchOrder ==
    \A j \in threads, k \in threads :
        (j < k /\ hist.row_of[k] # 0)
        => (hist.row_of[j] # 0 /\ hist.row_of[j] < hist.row_of[k])

\* The cursor is one line below the last progress row: the rows of the block
\* are the lines right above it.
AtRest ==
    LET n == Len(_progress_display._lines) IN
    (_progress_display._tty /\ n > 0) =>
        /\ Len(stdout) >= n
        /\ \A i \in 1..n :
             /\ stdout[Len(stdout) - n + i][1] = _progress_display._lines[i][1]
             /\ stdout[Len(stdout) - n + i][2] \in RowTexts

\* C16: every line that reaches the terminal while jobs run is written by
\* the display under its lock, and after every operation the cursor is one
\* line below the last progress row.
C16_AllWritesLockedCursorAtRest ==
    /\ hist.raw_writes = 0
    /\ AtRest

\* C19: the jobs that have registered have rows of their own, and the row an
\* update of a job writes is the row of that job, whatever the episode codes
\* are.
C19_UpdateWritesOwnRow ==
    /\ \A j \in Jobs, k \in Jobs :
         (j # k /\ hist.row_of[j] # 0) => hist.row_of[j] # hist.row_of[k]
    /\ hist.last[1] = "update" =>
         hist.touched = hist.row_of[hist.last[2]]

\* The step is a call of update by job j.
UpdateStep(j) ==
    /\ hist'.last = <<"update", j>>
    /\ hist' # hist \/ _progress_display' # _progress_display

\* No update has redrawn for code c in the last second.
Due(c) == hist.drawn_at[c] < 0 \/ clock - hist.drawn_at[c] >= OneSecond

C20_Step ==
    /\ \A c \in Codes :
         (/\ _progress_display'._last_update[c]
                # _progress_display._last_update[c]
          /\ _progress_display'._last_update[c] # 0)
         => Due(c)
    /\ \A j \in Jobs :
         UpdateStep(j) =>
           /\ _progress_display'._lines[hist'.touched][2] \in Texts
           /\ (_progress_display._tty /\ Due(episode_code(j)))
                 => hist'.drawn_at[episode_code(j)] = clock
           /\ ~_progress_display._tty => stdout' = stdout

\* C20: on a tty two redraws that update() triggers for the same code are at
\* least one second apart; update() stores the text also when it does not
\* redraw; an update is not held back by a redraw for another code; when
\* stdout is no tty update() writes nothing.
C20_RedrawsThrottledPerCode == [][C20_Step]_vars

\* The jobs that leave download_episode in the step, and those whose
\* acquire() returns in it.
Leaving == {j \in Jobs : pc[j] # "done" /\ pc'[j] = "done"}
Entering == {j \in Jobs : pc[j] = "acquire" /\ pc'[j] = "check"}

C21_Step ==
    /\ permits' = permits + Cardinality(Leaving) - Cardinality(Entering)
    /\ \A j \in Leaving : pc[j] \in HoldingPcs /\ acquired[j] = 1
    /\ \A j \in Jobs : pc[j] = "done" => pc'[j] = "done"

\* C21: a job that got a permit gives it back exactly once, however it
\* leaves download_episode (skip, saved, mux failure, failed verification,
\* after the stop event, or on an exception), and no job gives back a permit
\* it did not get: the semaphore always counts the capacity less the jobs
\* between acquire() and release(), and is back at the capacity when no job
\* thread is running.
C21_PermitReleasedExactlyOnce ==
    /\ [](permits + Cardinality(Holders) = MAX_CONCURRENT_DOWNLOADS)
    /\ []((\A j \in Jobs : ~alive(j)) => permits = MAX_CONCURRENT_DOWNLOADS)
    /\ [](\A j \in Jobs : acquired[j] =
              IF pc[j] \in HoldingPcs \cup {"done"} THEN 1 ELSE 0)
    /\ [][C21_Step]_vars

\* C21 witness: main() is through, one job left by the early return of the
\* skip and another on an exception, and every permit is back.
C21_Witness ==
    /\ mainPc = "exited"
    /\ permits = MAX_CONCURRENT_DOWNLOADS
    /\ \E j \in Jobs, k \in Jobs :
         /\ pc[j] = "done" /\ outcome[j] = "skipped" /\ acquired[j] = 1
         /\ pc[k] = "done" /\ outcome[k] = "raised" /\ acquired[k] = 1

====
